---- MODULE Spec2Model ----
(***************************************************************************)
(* A model of weather_dashboard.py: load_data_from_github (read the CSV,   *)
(* clean and deduplicate the column labels, coerce the measurement         *)
(* columns, build the sorted datetime index) and the main script (the      *)
(* no-data branch, the metrics, the insertion of gap rows for the charts). *)
(*                                                                         *)
(* Text is modelled as a sequence of one-character strings, so that        *)
(* stripping, concatenation, formatting and parsing are computed and not   *)
(* assumed.  A column label is a sequence of text fragments: a fragment is *)
(* a name without blanks at its ends, periods, underscores or digits       *)
(* ("Temp", "Out Temp") or one of the single characters " ", ".", "_",     *)
(* "0".."9"; two labels are the same text iff they are the same sequence.  *)
(***************************************************************************)
EXTENDS Integers, Sequences, FiniteSets, Bags, TLC

VARIABLES
    pc,        \* position in the script
    csv,       \* the payload behind the URL: [header, rows] of raw text
    df,        \* the frame inside load_data_from_github / the loaded df
    result,    \* what load_data_from_github returned: "pending", "None", "frame"
    msgs,      \* the st.error / st.warning calls so far, in order
    df_plot,   \* the copy of df the gap rows are inserted into
    gaps,      \* the index values the for loop iterates over
    gi,        \* position of the for loop in gaps
    pass,      \* 1: the script's own gap insertion; 2: applied again to its output
    plot1,     \* df_plot at the end of pass 1
    run,       \* 1: first build; 2: rebuild from the reversed rows
    first      \* the frame of the first build

vars == <<pc, csv, df, result, msgs, df_plot, gaps, gi, pass, plot1, run, first>>

(***************************************************************************)
(* Generic helpers on sequences.                                           *)
(***************************************************************************)
Range(s) == {s[i] : i \in 1..Len(s)}

RECURSIVE SeqsUpTo(_, _)
SeqsUpTo(S, n) ==
    IF n = 0 THEN {<<>>}
    ELSE LET shorter == SeqsUpTo(S, n - 1)
         IN  shorter \cup {Append(s, x) : s \in {t \in shorter : Len(t) = n - 1}, x \in S}

Reverse(s) == [i \in 1..Len(s) |-> s[Len(s) + 1 - i]]

SelectIdx(s, keep(_)) ==
    LET RECURSIVE go(_)
        go(i) == IF i > Len(s) THEN <<>>
                 ELSE (IF keep(i) THEN <<s[i]>> ELSE <<>>) \o go(i + 1)
    IN  go(1)

\* The bag (multiset) of the elements of a sequence.
BagOf(s) == [x \in Range(s) |-> Cardinality({i \in 1..Len(s) : s[i] = x})]

(***************************************************************************)
(* Text helpers.                                                           *)
(***************************************************************************)
DigitChars == <<"0", "1", "2", "3", "4", "5", "6", "7", "8", "9">>

IsDigit(c) == c \in Range(DigitChars)

DigitVal(c) == CHOOSE d \in 0..9 : DigitChars[d + 1] = c

\* str(n) for a natural number n.
RECURSIVE IntToText(_)
IntToText(n) ==
    IF n < 10 THEN <<DigitChars[n + 1]>>
    ELSE IntToText(n \div 10) \o <<DigitChars[(n % 10) + 1]>>

\* int(t) for a non-empty sequence of digits.
RECURSIVE TextToInt(_)
TextToInt(t) ==
    IF Len(t) = 0 THEN 0
    ELSE 10 * TextToInt(SubSeq(t, 1, Len(t) - 1)) + DigitVal(t[Len(t)])

AllDigits(t) == Len(t) > 0 /\ \A i \in 1..Len(t) : IsDigit(t[i])

\* str.strip(): drop the blanks at both ends.
RECURSIVE LStrip(_)
LStrip(t) == IF Len(t) > 0 /\ t[1] = " " THEN LStrip(Tail(t)) ELSE t

RECURSIVE RStrip(_)
RStrip(t) ==
    IF Len(t) > 0 /\ t[Len(t)] = " " THEN RStrip(SubSeq(t, 1, Len(t) - 1)) ELSE t

Strip(t) == RStrip(LStrip(t))

\* str.replace('.', '', regex=False): drop every period.
RemovePeriods(t) == SelectSeq(t, LAMBDA c : c # ".")

\* t.split(sep): the pieces of t between the occurrences of sep.
RECURSIVE Split(_, _)
Split(t, sep) ==
    IF \A i \in 1..Len(t) : t[i] # sep THEN <<t>>
    ELSE LET k == CHOOSE i \in 1..Len(t) : t[i] = sep /\ \A j \in 1..(i - 1) : t[j] # sep
         IN  <<SubSeq(t, 1, k - 1)>> \o Split(SubSeq(t, k + 1, Len(t)), sep)

(***************************************************************************)
(* Column labels: lines 10-24 and 41-42.                                   *)
(***************************************************************************)
CleanLabel(label) == RemovePeriods(Strip(label))

\* The loop of deduplicate_columns from position i on, with the counts and
\* the labels emitted so far.
RECURSIVE DedupFrom(_, _, _, _)
DedupFrom(cols, i, counts, new_cols) ==
    IF i > Len(cols) THEN new_cols
    ELSE LET col == cols[i]
             cur_count == IF col \in DOMAIN counts THEN counts[col] ELSE 0
             emitted == IF cur_count > 0
                        THEN col \o <<"_">> \o IntToText(cur_count)
                        ELSE col
         IN  DedupFrom(cols, i + 1,
                       [c \in (DOMAIN counts) \cup {col} |->
                           IF c = col THEN cur_count + 1 ELSE counts[c]],
                       Append(new_cols, emitted))

deduplicate_columns(df_columns) == DedupFrom(df_columns, 1, <<>>, <<>>)

cleaned_cols(header) == [i \in 1..Len(header) |-> CleanLabel(header[i])]

(***************************************************************************)
(* Cells.  A cell is a raw string, a number or missing (NaN / NaT / NA).   *)
(* A number is kept exactly, as a sign, a mantissa and a count of decimal  *)
(* places with no trailing zero: 2.5 is [neg |-> FALSE, m |-> 25, e |-> 1].*)
(***************************************************************************)
Str(t) == [str |-> t]

NA == [na |-> TRUE]

IsStr(c) == DOMAIN c = {"str"}

IsNum(c) == DOMAIN c = {"num"}

IsNA(c) == DOMAIN c = {"na"}

RECURSIVE Normalise(_, _)
Normalise(m, e) ==
    IF e > 0 /\ m % 10 = 0 THEN Normalise(m \div 10, e - 1) ELSE <<m, e>>

Num(neg, m, e) ==
    LET n == Normalise(m, e)
    IN  [num |-> [neg |-> neg /\ n[1] # 0, m |-> n[1], e |-> n[2]]]

\* The number a text denotes, or NA: blanks at the ends are ignored, then an
\* optional sign, digits, and at most one period with digits on either side
\* (at least one digit in all).
ParseNumber(t) ==
    LET s == Strip(t)
        neg == Len(s) > 0 /\ s[1] = "-"
        body == IF Len(s) > 0 /\ s[1] \in {"-", "+"} THEN Tail(s) ELSE s
        parts == Split(body, ".")
        digitsOrEmpty(p) == \A i \in 1..Len(p) : IsDigit(p[i])
    IN  IF Len(parts) = 1 /\ AllDigits(parts[1])
        THEN Num(neg, TextToInt(parts[1]), 0)
        ELSE IF /\ Len(parts) = 2
                /\ digitsOrEmpty(parts[1]) /\ digitsOrEmpty(parts[2])
                /\ Len(parts[1]) + Len(parts[2]) > 0
        THEN Num(neg, TextToInt(parts[1] \o parts[2]), Len(parts[2]))
        ELSE NA

\* pd.to_numeric(column, errors='coerce'), cell by cell.
to_numeric(c) == IF IsStr(c) THEN ParseNumber(c.str) ELSE c

\* pd.read_csv's inference for one column of raw text: an empty field is
\* missing; the column is numeric iff every other field is a number, and
\* else its fields stay strings.
read_csv_column(texts) ==
    LET numeric == \A i \in 1..Len(texts) :
                       texts[i] = <<>> \/ ~IsNA(ParseNumber(texts[i]))
    IN  [i \in 1..Len(texts) |->
            IF texts[i] = <<>> THEN NA
            ELSE IF numeric THEN ParseNumber(texts[i])
            ELSE Str(texts[i])]

\* pd.read_csv(url): the labels of the header line and the typed cells.
\* A frame is [columns, rows]; a row is [cells] until the index is set and
\* [datetime, cells] from then on.
read_csv(payload) ==
    LET ncol == Len(payload.header)
        col(j) == read_csv_column([i \in 1..Len(payload.rows) |-> payload.rows[i][j]])
    IN  [columns |-> payload.header,
         rows |-> [i \in 1..Len(payload.rows) |->
                     [cells |-> [j \in 1..ncol |-> col(j)[i]]]]]

\* Series.astype(str) of one cell: a missing value prints as nan, a number
\* as a float.
FormatNum(n) ==
    LET whole == IntToText(n.m)
        pad == IF Len(whole) <= n.e
               THEN [i \in 1..(n.e + 1 - Len(whole)) |-> "0"] \o whole
               ELSE whole
        cut == Len(pad) - n.e
    IN  (IF n.neg THEN <<"-">> ELSE <<>>)
        \o SubSeq(pad, 1, cut) \o <<".">>
        \o (IF n.e = 0 THEN <<"0">> ELSE SubSeq(pad, cut + 1, Len(pad)))

astype_str(c) ==
    IF IsStr(c) THEN c.str
    ELSE IF IsNA(c) THEN <<"n", "a", "n">>
    ELSE FormatNum(c.num)

(***************************************************************************)
(* pd.to_datetime(text, errors='coerce', dayfirst=True) for the texts      *)
(* "D/M/Y H:M" and "D/M/Y H:M:S": the first field of the date is the day.  *)
(* A timestamp is a number of seconds since 2000-01-01 00:00:00; a text    *)
(* that is no date and time is NaT.                                        *)
(***************************************************************************)
NaT == [ok |-> FALSE, ts |-> 0]

DaysBeforeMonth == <<0, 31, 59, 90, 120, 151, 181, 212, 243, 273, 304, 334>>

IsLeap(year) == year % 4 = 0 /\ (year % 100 # 0 \/ year % 400 = 0)

DaysInMonth(year, month) ==
    IF month = 2 THEN (IF IsLeap(year) THEN 29 ELSE 28)
    ELSE IF month \in {4, 6, 9, 11} THEN 30 ELSE 31

\* Days from 2000-01-01 to the given date (year >= 2000).
DaysSinceEpoch(year, month, day) ==
    LET y == year - 2000
        leapDaysBefore == IF y = 0 THEN 0
                          ELSE ((y - 1) \div 4) - ((y - 1) \div 100) + ((y - 1) \div 400) + 1
    IN  365 * y + leapDaysBefore + DaysBeforeMonth[month]
        + (IF month > 2 /\ IsLeap(year) THEN 1 ELSE 0) + (day - 1)

to_datetime(text) ==
    LET halves == Split(Strip(text), " ")
        d == IF Len(halves) = 2 THEN Split(halves[1], "/") ELSE <<>>
        t == IF Len(halves) = 2 THEN Split(halves[2], ":") ELSE <<>>
        fieldsOk == /\ Len(d) = 3 /\ Len(t) \in {2, 3}
                    /\ \A i \in 1..Len(d) : AllDigits(d[i])
                    /\ \A i \in 1..Len(t) : AllDigits(t[i]) /\ Len(t[i]) <= 2
                    /\ Len(d[1]) <= 2 /\ Len(d[2]) <= 2 /\ Len(d[3]) \in {2, 4}
    IN  IF ~fieldsOk THEN NaT
        ELSE LET day == TextToInt(d[1])
                 month == TextToInt(d[2])
                 year == IF Len(d[3]) = 2 THEN 2000 + TextToInt(d[3]) ELSE TextToInt(d[3])
                 hour == TextToInt(t[1])
                 minute == TextToInt(t[2])
                 second == IF Len(t) = 3 THEN TextToInt(t[3]) ELSE 0
             IN  IF /\ year \in 2000..2099 /\ month \in 1..12
                    /\ day \in 1..DaysInMonth(year, month)
                    /\ hour < 24 /\ minute < 60 /\ second < 60
                 THEN [ok |-> TRUE,
                       ts |-> DaysSinceEpoch(year, month, day) * 86400
                              + hour * 3600 + minute * 60 + second]
                 ELSE NaT

(***************************************************************************)
(* Frames.                                                                 *)
(***************************************************************************)
EmptyFrame == [columns |-> <<>>, rows |-> <<>>]

HasColumn(frame, label) == label \in Range(frame.columns)

\* df[label]: the position of the first column with that label.
ColumnOf(frame, label) ==
    CHOOSE j \in 1..Len(frame.columns) :
        frame.columns[j] = label /\ \A k \in 1..(j - 1) : frame.columns[k] # label

\* A variant of IsEmpty that looks at the columns only.
IsEmptyColumns(frame) == Len(frame.columns) = 0

\* df.empty: an axis of length 0.
IsEmpty(frame) == Len(frame.rows) = 0 \/ Len(frame.columns) = 0

numeric_cols ==
    {<<"Out Temp">>, <<"Temp">>, <<"Hum">>, <<"Pt">>, <<"Speed">>, <<"Bar">>,
     <<"Rain">>, <<"Rad">>, <<"Rate">>}

\* Lines 49-51: a column is coerced iff its label is in numeric_cols.
IsCoerced(label) == label \in numeric_cols

coerce(frame) ==
    [frame EXCEPT !.rows =
        [i \in 1..Len(frame.rows) |->
            [cells |-> [j \in 1..Len(frame.columns) |->
                IF IsCoerced(frame.columns[j])
                THEN to_numeric(frame.rows[i].cells[j])
                ELSE frame.rows[i].cells[j]]]]]

\* Line 56: the text of the Date cell, a blank, the text of the Time cell.
datetime_of(frame, row) ==
    to_datetime(astype_str(row.cells[ColumnOf(frame, <<"Date">>)]) \o <<" ">>
                \o astype_str(row.cells[ColumnOf(frame, <<"Time">>)]))

\* A variant of Survives without the dropna of line 57.
SurvivesAlways(parsed) == TRUE

\* Line 57: df.dropna(subset=['datetime']) keeps a row iff its datetime parsed.
Survives(parsed) == parsed.ok

IsMonotonic(rows) ==
    \A i \in 1..(Len(rows) - 1) : rows[i].datetime <= rows[i + 1].datetime

\* Every arrangement of the rows at the positions idxs that is ascending
\* by datetime.
RECURSIVE Ascending(_, _)
Ascending(rows, idxs) ==
    IF idxs = {} THEN {<<>>}
    ELSE LET least == {i \in idxs : \A k \in idxs : rows[i].datetime <= rows[k].datetime}
         IN  UNION {{<<rows[i]>> \o rest : rest \in Ascending(rows, idxs \ {i})} :
                        i \in least}

\* A variant of sort_index that leaves the rows as they are.
sort_index_never(rows) == {rows}

\* DataFrame.sort_index() with its default kind='quicksort': an index that is
\* already ascending is left as it is; otherwise the rows are sorted by an
\* argsort that is not stable, so rows with equal datetime come out in an
\* order the code does not determine.
sort_index(rows) ==
    IF IsMonotonic(rows) THEN {rows} ELSE Ascending(rows, 1..Len(rows))

\* Lines 56-58: the rows whose datetime parsed, in input order, keyed by it.
indexed_rows(frame) ==
    LET parsed == [i \in 1..Len(frame.rows) |-> datetime_of(frame, frame.rows[i])]
        kept == SelectIdx(frame.rows, LAMBDA i : Survives(parsed[i]))
        keptTs == SelectIdx(parsed, LAMBDA i : Survives(parsed[i]))
    IN  [i \in 1..Len(kept) |-> [datetime |-> keptTs[i].ts, cells |-> kept[i].cells]]

\* A variant of HasDateAndTime with "or" for "and".
HasDateOrTime(frame) == HasColumn(frame, <<"Date">>) \/ HasColumn(frame, <<"Time">>)

\* Line 54.
HasDateAndTime(frame) == HasColumn(frame, <<"Date">>) /\ HasColumn(frame, <<"Time">>)

FAILED_MSG == [level |-> "error", text |-> "Failed to load or process data. Error: ..."]

SCHEMA_MSG == [level |-> "error", text |-> "Dataset must contain 'Date' and 'Time' columns."]

NO_DATA_MSG ==
    [level |-> "error",
     text |-> "Could not load or display data. Please check the GitHub URL and file content."]

NO_METRICS_MSG == [level |-> "warning", text |-> "No recent valid data to display metrics."]

metric_cols == <<<<"Temp">>, <<"Hum">>, <<"Speed">>, <<"Bar">>>>

\* Line 86: df.dropna(subset=existing_metric_cols) is empty.
NoMetricRow(frame) ==
    \A i \in 1..Len(frame.rows) :
        \E k \in 1..Len(metric_cols) :
            /\ HasColumn(frame, metric_cols[k])
            /\ IsNA(frame.rows[i].cells[ColumnOf(frame, metric_cols[k])])

\* Line 112, in seconds.
gap_threshold == 7200

\* A variant of IsGap with >= for >.
IsGapAtLeast(delta) == delta >= gap_threshold

\* Line 116: time_diff > gap_threshold.
IsGap(delta) == delta > gap_threshold

\* Lines 111-116: the index values of the rows whose distance to the row
\* before exceeds the threshold (the first row's diff is NaT: never).
gap_starts(rows) ==
    LET at == SelectIdx(rows, LAMBDA i : i > 1 /\ IsGap(rows[i].datetime - rows[i - 1].datetime))
    IN  [k \in 1..Len(at) |-> at[k].datetime]

\* Variants of gap_row: at gap_start itself, and two seconds before it.
gap_row_at_start(ncols, gap_start) ==
    [datetime |-> gap_start, cells |-> [j \in 1..ncols |-> NA]]

gap_row_two_seconds(ncols, gap_start) ==
    [datetime |-> gap_start - 2, cells |-> [j \in 1..ncols |-> NA]]

\* Lines 118-120: a row of pd.NA, one second before gap_start.
gap_row(ncols, gap_start) ==
    [datetime |-> gap_start - 1, cells |-> [j \in 1..ncols |-> NA]]

(***************************************************************************)
(* load_data_from_github, lines 34-68.                                     *)
(***************************************************************************)
\* Line 38.
ReadCsv ==
    /\ pc = "read"
    /\ df' = read_csv(csv)
    /\ pc' = "normalize"
    /\ UNCHANGED <<csv, result, msgs, df_plot, gaps, gi, pass, plot1, run, first>>

\* Lines 41-42.
NormalizeColumns ==
    /\ pc = "normalize"
    /\ df' = [df EXCEPT !.columns = deduplicate_columns(cleaned_cols(df.columns))]
    /\ pc' = "coerce"
    /\ UNCHANGED <<csv, result, msgs, df_plot, gaps, gi, pass, plot1, run, first>>

\* Lines 45-51.
CoerceNumeric ==
    /\ pc = "coerce"
    /\ df' = coerce(df)
    /\ pc' = "datetime"
    /\ UNCHANGED <<csv, result, msgs, df_plot, gaps, gi, pass, plot1, run, first>>

\* Lines 54-59 and 64.  df['Date'] or df['Time'] on a frame without that
\* column raises KeyError, which lines 66-68 report before returning None.
BuildIndex ==
    /\ pc = "datetime"
    /\ HasDateAndTime(df)
    /\ IF HasColumn(df, <<"Date">>) /\ HasColumn(df, <<"Time">>)
       THEN /\ \E sorted \in sort_index(indexed_rows(df)) :
                   df' = [df EXCEPT !.rows = sorted]
            /\ result' = "frame"
            /\ msgs' = msgs
       ELSE /\ df' = EmptyFrame
            /\ result' = "None"
            /\ msgs' = Append(msgs, FAILED_MSG)
    /\ pc' = "main"
    /\ UNCHANGED <<csv, df_plot, gaps, gi, pass, plot1, run, first>>

\* Lines 60-62.
SchemaError ==
    /\ pc = "datetime"
    /\ ~HasDateAndTime(df)
    /\ msgs' = Append(msgs, SCHEMA_MSG)
    /\ result' = "None"
    /\ df' = EmptyFrame
    /\ pc' = "main"
    /\ UNCHANGED <<csv, df_plot, gaps, gi, pass, plot1, run, first>>

(***************************************************************************)
(* The main script, lines 76-164.                                          *)
(***************************************************************************)
\* Line 78 false, lines 163-164.
MainNoData ==
    /\ pc = "main"
    /\ result = "None" \/ IsEmpty(df)
    /\ msgs' = Append(msgs, NO_DATA_MSG)
    /\ pc' = "done"
    /\ UNCHANGED <<csv, df, result, df_plot, gaps, gi, pass, plot1, run, first>>

\* Line 78 true: the metrics (lines 80-103), the copy and the gaps to
\* insert (lines 108-116).
MainDisplay ==
    /\ pc = "main"
    /\ result = "frame" /\ ~IsEmpty(df)
    /\ msgs' = IF NoMetricRow(df) THEN Append(msgs, NO_METRICS_MSG) ELSE msgs
    /\ df_plot' = df
    /\ gaps' = gap_starts(df.rows)
    /\ gi' = 1
    /\ pc' = "gaps"
    /\ UNCHANGED <<csv, df, result, pass, plot1, run, first>>

\* Lines 117-121: one iteration of the for loop.
GapInsert ==
    /\ pc = "gaps"
    /\ gi <= Len(gaps)
    /\ \E sorted \in sort_index(Append(df_plot.rows,
                                       gap_row(Len(df_plot.columns), gaps[gi]))) :
           df_plot' = [df_plot EXCEPT !.rows = sorted]
    /\ gi' = gi + 1
    /\ UNCHANGED <<pc, csv, df, result, msgs, gaps, pass, plot1, run, first>>

\* The loop is over: the charts and the table are drawn (lines 123-161).
ChartsDone ==
    /\ pc = "gaps"
    /\ gi > Len(gaps)
    /\ pc' = "done"
    /\ plot1' = IF pass = 1 THEN df_plot ELSE plot1
    /\ UNCHANGED <<csv, df, result, msgs, df_plot, gaps, gi, pass, run, first>>

(***************************************************************************)
(* Two uses of the code beyond one run of the script.                      *)
(***************************************************************************)
\* Lines 110-121 applied once more, to their own output.
Reapply ==
    /\ pc = "done"
    /\ result = "frame" /\ ~IsEmpty(df)
    /\ pass = 1
    /\ pass' = 2
    /\ gaps' = gap_starts(df_plot.rows)
    /\ gi' = 1
    /\ pc' = "gaps"
    /\ UNCHANGED <<csv, df, result, msgs, df_plot, plot1, run, first>>

\* load_data_from_github called again on the same table with its rows in
\* reverse order.
Rebuild ==
    /\ pc = "main"
    /\ result = "frame"
    /\ run = 1
    /\ run' = 2
    /\ first' = df
    /\ csv' = [csv EXCEPT !.rows = Reverse(csv.rows)]
    /\ df' = EmptyFrame
    /\ result' = "pending"
    /\ pc' = "read"
    /\ UNCHANGED <<msgs, df_plot, gaps, gi, pass, plot1>>

(***************************************************************************)
(* Inputs.                                                                 *)
(***************************************************************************)
MaxCols == 3

MaxCoerceRows == 2

MaxLoadRows == 3

MaxGapRows == 3

Start(payload) ==
    /\ pc = "read"
    /\ csv = payload
    /\ df = EmptyFrame
    /\ result = "pending"
    /\ msgs = <<>>
    /\ df_plot = EmptyFrame
    /\ gaps = <<>>
    /\ gi = 1
    /\ pass = 1
    /\ plot1 = EmptyFrame
    /\ run = 1
    /\ first = EmptyFrame

\* Raw labels as read_csv delivers them (no two alike), some of which clean
\* to the same text and some of which look like a suffixed label.
RawLabels ==
    {<<"A">>, <<"A", ".">>, <<" ", "A">>, <<"A", "_", "1">>, <<"A", "_", "2">>, <<"B">>}

IsInjective(s) == \A i, j \in 1..Len(s) : s[i] = s[j] => i = j

InitCols ==
    \E header \in {h \in SeqsUpTo(RawLabels, MaxCols) : IsInjective(h)} :
        Start([header |-> header, rows |-> <<>>])

DATE == <<"Date">>

TIME == <<"Time">>

GoodDate == <<"1", "3", "/", "0", "4", "/", "2", "3">>

NextDate == <<"1", "4", "/", "0", "4", "/", "2", "3">>

BadText == <<"-", "-">>

Clock(h1, h2, m1, m2) == <<h1, h2, ":", m1, m2>>

ClockS(h1, h2, m1, m2, s1, s2) == <<h1, h2, ":", m1, m2, ":", s1, s2>>

\* The texts a field of a column may hold, by what the column is.
FieldTexts(kind) ==
    CASE kind = "date" -> {GoodDate}
      [] kind = "time" -> {Clock("1", "0", "0", "0")}
      [] kind = "dates" -> {GoodDate, NextDate}
      [] kind = "times" -> {Clock("1", "0", "0", "0"), BadText}
      [] kind = "gaptimes" ->
            {ClockS("1", "0", "0", "0", "0", "0"), ClockS("1", "2", "0", "0", "0", "0"),
             ClockS("1", "2", "0", "0", "0", "1"), ClockS("1", "2", "0", "0", "0", "2"),
             ClockS("1", "5", "0", "0", "0", "0")}
      [] kind = "cell" -> {<<"1">>, <<"2", ".", "5">>, BadText, <<>>}
      [] kind = "tag" -> {<<"1">>, <<"2">>}
      [] kind = "one" -> {<<"1">>}

\* The tables with the given header, column kinds and at most n rows.
Tables(header, kinds, n) ==
    LET RowTexts == {r \in [1..Len(kinds) -> UNION {FieldTexts(kinds[j]) : j \in 1..Len(kinds)}] :
                        \A j \in 1..Len(kinds) : r[j] \in FieldTexts(kinds[j])}
    IN  {[header |-> header, rows |-> rows] : rows \in SeqsUpTo(RowTexts, n)}

\* The two header dialects, two measurement columns at a time.
DialectHeaders ==
    {<<DATE, TIME, <<"Out Temp">>, <<"Out Hum">>>>,
     <<DATE, TIME, <<"Wind Speed">>, <<"Dew Pt", ".">>>>,
     <<DATE, TIME, <<"Solar Rad", ".">>, <<"Bar">>>>,
     <<DATE, TIME, <<"Rain">>, <<"Out Temp">>>>,
     <<DATE, TIME, <<"Temp">>, <<"Hum">>>>,
     <<DATE, TIME, <<"Speed">>, <<"Pt">>>>,
     <<DATE, TIME, <<"Rad">>, <<"Bar">>>>,
     <<DATE, TIME, <<"Rain">>, <<"Rate">>>>}

InitCoerce ==
    \E header \in DialectHeaders :
        \E payload \in Tables(header, <<"date", "time", "cell", "cell">>, MaxCoerceRows) :
            Start(payload)

InitLoad ==
    \/ \E payload \in Tables(<<DATE, TIME, <<"Temp">>>>, <<"dates", "times", "tag">>, MaxLoadRows) :
           Start(payload)
    \/ \E payload \in Tables(<<<<" ", "Date">>, <<"Time", ".">>>>, <<"dates", "times">>, MaxLoadRows) :
           Start(payload)
    \/ \E payload \in Tables(<<DATE, <<"Temp">>>>, <<"dates", "cell">>, MaxLoadRows) :
           Start(payload)
    \/ \E payload \in Tables(<<TIME, <<"Temp">>>>, <<"times", "cell">>, MaxLoadRows) :
           Start(payload)

InitGap ==
    \E payload \in Tables(<<DATE, TIME, <<"Temp">>>>, <<"date", "gaptimes", "tag">>, MaxGapRows) :
        Start(payload)

Init == InitCols \/ InitCoerce \/ InitLoad \/ InitGap

Load == ReadCsv \/ NormalizeColumns \/ CoerceNumeric \/ BuildIndex \/ SchemaError

Next == Load \/ MainNoData \/ MainDisplay \/ GapInsert \/ ChartsDone

\* The script, on every input above.
Spec == Init /\ [][Next]_vars

NextCols == ReadCsv \/ NormalizeColumns

SpecCols == InitCols /\ [][NextCols]_vars

NextCoerce == ReadCsv \/ NormalizeColumns \/ CoerceNumeric

SpecCoerce == InitCoerce /\ [][NextCoerce]_vars

NextLoad == Next \/ Rebuild

SpecLoad == InitLoad /\ [][NextLoad]_vars

NextGap ==
    \/ ReadCsv \/ NormalizeColumns \/ CoerceNumeric \/ BuildIndex
    \/ MainNoData \/ MainDisplay \/ GapInsert \/ ChartsDone \/ Reapply

SpecGap == InitGap /\ [][NextGap]_vars

(***************************************************************************)
(* What the properties below speak about.                                  *)
(***************************************************************************)
\* The labels handed to deduplicate_columns for the current payload.
NormalizerInput == cleaned_cols(csv.header)

IsFirstOccurrence(labels, i) == \A k \in 1..(i - 1) : labels[k] # labels[i]

Distinct(labels) == \A i, j \in 1..Len(labels) : labels[i] = labels[j] => i = j

\* The measurement labels of the legacy and of the cleaned dialect.
LegacyLabels ==
    {<<"Out Temp">>, <<"Out Hum">>, <<"Wind Speed">>, <<"Dew Pt">>, <<"Solar Rad">>,
     <<"Bar">>, <<"Rain">>}

CleanedLabels ==
    {<<"Temp">>, <<"Hum">>, <<"Speed">>, <<"Pt">>, <<"Rad">>, <<"Bar">>, <<"Rain">>,
     <<"Rate">>}

\* The position of the payload's first column whose label cleans to the
\* given one.
RawColumn(payload, label) ==
    CHOOSE j \in 1..Len(payload.header) :
        /\ CleanLabel(payload.header[j]) = label
        /\ \A k \in 1..(j - 1) : CleanLabel(payload.header[k]) # label

HeaderHas(payload, label) ==
    \E j \in 1..Len(payload.header) : CleanLabel(payload.header[j]) = label

\* The timestamp of row i of the payload, read from its raw text.
RawDatetime(payload, i) ==
    to_datetime(payload.rows[i][RawColumn(payload, DATE)] \o <<" ">>
                \o payload.rows[i][RawColumn(payload, TIME)])

\* The frame as it reaches the datetime step.
TypedFrame(payload) ==
    LET raw == read_csv(payload)
    IN  coerce([raw EXCEPT !.columns = deduplicate_columns(cleaned_cols(raw.columns))])

\* The payload's rows whose date and time parse, in the payload's order,
\* each with its timestamp.
ParsableRows(payload) ==
    LET typed == TypedFrame(payload).rows
        keep == SelectIdx([i \in 1..Len(payload.rows) |-> i],
                          LAMBDA i : RawDatetime(payload, i).ok)
    IN  [k \in 1..Len(keep) |->
            [datetime |-> RawDatetime(payload, keep[k]).ts, cells |-> typed[keep[k]].cells]]

NonDecreasing(rows) ==
    \A i, j \in 1..Len(rows) : i < j => rows[i].datetime <= rows[j].datetime

Timestamps(rows) == [i \in 1..Len(rows) |-> rows[i].datetime]

AtTime(rows, t) == SelectSeq(rows, LAMBDA r : r.datetime = t)

\* The payload of the first build, while the second one runs.
OriginalPayload == [csv EXCEPT !.rows = Reverse(csv.rows)]

(***************************************************************************)
(* C1: for every sequence of labels, the normalizer's output has the same  *)
(* length, keeps the first occurrence of each label in place and           *)
(* unchanged, and holds no label twice.                                    *)
(***************************************************************************)
C1_NormalizerUnique ==
    pc = "coerce" =>
        /\ Len(df.columns) = Len(NormalizerInput)
        /\ \A i \in 1..Len(NormalizerInput) :
               IsFirstOccurrence(NormalizerInput, i) => df.columns[i] = NormalizerInput[i]
        /\ Distinct(df.columns)

(***************************************************************************)
(* C5: after the coercion, under either header dialect, every cell of      *)
(* every measurement column is a number or missing, never a raw string.    *)
(***************************************************************************)
C5_MeasurementsNumeric ==
    pc = "datetime" =>
        \A i \in 1..Len(df.rows), j \in 1..Len(df.columns) :
            df.columns[j] \in LegacyLabels \cup CleanedLabels =>
                IsNum(df.rows[i].cells[j]) \/ IsNA(df.rows[i].cells[j])

(***************************************************************************)
(* C6: the series built from a table with Date and Time columns has        *)
(* non-decreasing timestamps and holds exactly the rows whose date and     *)
(* time text parses, each once and with its own timestamp.                 *)
(***************************************************************************)
C6_SortedSurvivors ==
    result = "frame" =>
        /\ NonDecreasing(df.rows)
        /\ BagOf(df.rows) = BagOf(ParsableRows(csv))

C6_Witness ==
    /\ result = "frame" /\ run = 1
    /\ Len(df.rows) >= 2
    /\ Len(df.rows) < Len(csv.rows)
    /\ df.rows # ParsableRows(csv)

(***************************************************************************)
(* C7, as claimed: rebuilding from the reversed rows of a pre-sorted table *)
(* gives the identical series, records sharing a timestamp included.       *)
(***************************************************************************)
C7_ReverseIdentical ==
    (run = 2 /\ result = "frame" /\ NonDecreasing(ParsableRows(OriginalPayload))) =>
        df = first

(***************************************************************************)
(* C7, amended: rebuilding from the reversed rows gives a series with the  *)
(* same columns, the same sequence of timestamps and the same records,     *)
(* each as often; it is identical whenever no two surviving records share  *)
(* a timestamp.                                                            *)
(***************************************************************************)
C7_ReverseSameUpToTies ==
    (run = 2 /\ result = "frame") =>
        /\ df.columns = first.columns
        /\ Timestamps(df.rows) = Timestamps(first.rows)
        /\ BagOf(df.rows) = BagOf(first.rows)
        /\ Distinct(Timestamps(df.rows)) => df = first

C7_Witness ==
    /\ run = 2 /\ result = "frame"
    /\ Len(df.rows) >= 2
    /\ NonDecreasing(ParsableRows(OriginalPayload))
    /\ ~NonDecreasing(ParsableRows(csv))
    /\ df = first

(***************************************************************************)
(* C8: the sort is stable: surviving rows with the same timestamp keep the *)
(* relative order they have in the input table.                            *)
(***************************************************************************)
C8_StableSort ==
    result = "frame" =>
        \A t \in Range(Timestamps(df.rows)) :
            AtTime(df.rows, t) = AtTime(ParsableRows(csv), t)

(***************************************************************************)
(* C9: when the normalized header lacks Date or Time, loading reports the  *)
(* schema error and returns no series: no frame, no index, nothing of the  *)
(* coercion that ran before the check.                                     *)
(***************************************************************************)
NormalizedHeader == deduplicate_columns(cleaned_cols(csv.header))

LoadIsOver == pc \in {"main", "gaps", "done"}

C9_SchemaErrorNoSeries ==
    (LoadIsOver /\ ~(DATE \in Range(NormalizedHeader) /\ TIME \in Range(NormalizedHeader))) =>
        /\ result = "None"
        /\ Len(msgs) >= 1 /\ msgs[1] = SCHEMA_MSG
        /\ df = EmptyFrame
        /\ df_plot = EmptyFrame

C9_Witness ==
    /\ pc = "main" /\ result = "None"
    /\ msgs = <<SCHEMA_MSG>>
    /\ TIME \notin Range(NormalizedHeader)
    /\ Len(csv.rows) >= 2
    /\ \E i \in 1..Len(csv.rows) : csv.rows[i][RawColumn(csv, <<"Temp">>)] = BadText

(***************************************************************************)
(* C4, as claimed: a payload whose rows all fail to parse (an empty        *)
(* series) is not reported with an error that the schema-error outcome     *)
(* shows.                                                                  *)
(***************************************************************************)
EmptyOutcome == pc = "done" /\ result = "frame" /\ df.rows = <<>>

SchemaOutcome == pc = "done" /\ result = "None"

IsMarker(row) == \A j \in 1..Len(row.cells) : IsNA(row.cells[j])

Markers(rows) == SelectSeq(rows, IsMarker)

Reals(rows) == SelectSeq(rows, LAMBDA r : ~IsMarker(r))

\* The positions of the series whose record is more than d seconds after
\* the record before.
Later(rows, d) ==
    {i \in 2..Len(rows) : rows[i].datetime - rows[i - 1].datetime > d}

CountAt(rows, t) == Cardinality({k \in 1..Len(rows) : rows[k].datetime = t})

(***************************************************************************)
(* C3: one application inserts exactly one marker for each pair of         *)
(* adjacent records more than 2 hours (7200 s) apart and none for a pair   *)
(* at most 2 hours apart; the marker is one second before the later        *)
(* record and all its fields are missing; a series of fewer than two       *)
(* records is unchanged.                                                   *)
(***************************************************************************)
C3_OneMarkerPerGap ==
    (pc = "done" /\ pass = 1 /\ result = "frame") =>
        /\ BagOf(Reals(df_plot.rows)) = BagOf(df.rows)
        /\ Len(Markers(df_plot.rows)) = Cardinality(Later(df.rows, 7200))
        /\ \A i \in Later(df.rows, 7200) :
               /\ CountAt(df_plot.rows, df.rows[i].datetime - 1) = 1
               /\ CountAt(Markers(df_plot.rows), df.rows[i].datetime - 1) = 1
        /\ \A k \in 1..Len(df_plot.rows) : Len(df_plot.rows[k].cells) = Len(df.columns)
        /\ Len(df.rows) < 2 => df_plot.rows = df.rows

C3_Witness ==
    /\ pc = "done" /\ pass = 1 /\ result = "frame"
    /\ Len(df.rows) >= 3
    /\ \E i \in 2..Len(df.rows) : df.rows[i].datetime - df.rows[i - 1].datetime = 7200
    /\ Cardinality(Later(df.rows, 7200)) = 1
    /\ Len(Markers(df_plot.rows)) = 1

(***************************************************************************)
(* C10: in the output, timestamps are non-decreasing; every marker is      *)
(* strictly after the earlier and strictly before the later record of the  *)
(* pair it was computed between, sits between them in the sequence, and    *)
(* has the timestamp of no real record.                                    *)
(***************************************************************************)
C10_MarkerBetween ==
    (pc \in {"gaps", "done"} /\ pass = 1) =>
        /\ NonDecreasing(df_plot.rows)
        /\ \A k \in 1..Len(df_plot.rows) :
               IsMarker(df_plot.rows[k]) =>
                   /\ \E i \in Later(df.rows, 7200) :
                          /\ df.rows[i - 1].datetime < df_plot.rows[k].datetime
                          /\ df_plot.rows[k].datetime < df.rows[i].datetime
                   /\ \A j \in 1..Len(df.rows) :
                          df.rows[j].datetime # df_plot.rows[k].datetime
                   /\ \A n \in 1..Len(df_plot.rows) :
                          ~IsMarker(df_plot.rows[n]) =>
                              (n < k <=> df_plot.rows[n].datetime < df_plot.rows[k].datetime)

C10_Witness ==
    /\ pc = "done" /\ pass = 1
    /\ Len(Markers(df_plot.rows)) >= 1
    /\ ~Distinct(Timestamps(df.rows))
    /\ df_plot.rows # df.rows \o Markers(df_plot.rows)

(***************************************************************************)
(* C2, as claimed: applied to its own output, the insertion adds no        *)
(* marker, however long the gaps are.                                      *)
(***************************************************************************)
C2_Idempotent == (pc = "done" /\ pass = 2) => df_plot = plot1

(***************************************************************************)
(* C2, amended: applied to its own output, the insertion adds no marker    *)
(* when no two adjacent records are more than 2 hours and 1 second         *)
(* (7201 s) apart; for each pair further apart it adds one more marker,    *)
(* two seconds before the later record.                                    *)
(***************************************************************************)
C2_IdempotentUpTo7201 ==
    (pc = "done" /\ pass = 2) =>
        /\ Later(df.rows, 7201) = {} => df_plot = plot1
        /\ Len(df_plot.rows) = Len(plot1.rows) + Cardinality(Later(df.rows, 7201))
        /\ BagOf(Reals(df_plot.rows)) = BagOf(df.rows)
        /\ \A i \in Later(df.rows, 7201) :
               /\ CountAt(Markers(df_plot.rows), df.rows[i].datetime - 2) = 1
               /\ CountAt(Markers(plot1.rows), df.rows[i].datetime - 2) = 0

C2_Witness ==
    /\ pc = "done" /\ pass = 2
    /\ \E i \in 2..Len(df.rows) : df.rows[i].datetime - df.rows[i - 1].datetime = 7201
    /\ Len(Markers(plot1.rows)) >= 1
    /\ df_plot = plot1

====
